---- MODULE Spec2Model ----
(***************************************************************************)
(* A model of gseapy/algorithm.py: the enrichment-score engine, the        *)
(* permutation machinery and the significance engine.                      *)
(*                                                                         *)
(* Numbers.  numpy computes in IEEE double precision.  The model computes  *)
(* with exact rationals extended by +inf, -inf and NaN, so that a division *)
(* by zero yields what numpy yields (a warning and inf or nan, never an    *)
(* exception), while rounding is left out.  A number is a pair <<n, d>>:   *)
(*   d > 0           the rational n/d in lowest terms                      *)
(*   <<1, 0>>        +inf       <<-1, 0>>   -inf       <<0, 0>>   NaN      *)
(* Signed zeros are not distinguished.  Exponents are integers.            *)
(***************************************************************************)
EXTENDS Integers, Sequences, FiniteSets, TLC

VARIABLES
  pc,         \* "called" while the call runs, "done" once it returned or raised
  call,       \* the operation called and its arguments
  ret,        \* what the call returned, or the exception that ended it
  defaultRs,  \* the RandomState a def statement created as the default of rs
  ref         \* an earlier run of gsea_compute / gsea_compute_ss, for comparison

vars == <<pc, call, ret, defaultRs, ref>>

\* F(v) with v evaluated once, however often F uses it
Let(v, F(_)) == CHOOSE r \in {F(x) : x \in {v}} : TRUE

-----------------------------------------------------------------------------
(* Extended rational arithmetic (IEEE semantics of numpy's float64).       *)

Abs(n) == IF n < 0 THEN -n ELSE n

Sign(n) == IF n < 0 THEN -1 ELSE IF n > 0 THEN 1 ELSE 0

RECURSIVE GCD(_, _)
GCD(a, b) == IF b = 0 THEN a ELSE GCD(b, a % b)

Reduce(n, d, g) == <<(Sign(d) * n) \div g, Abs(d) \div g>>

Norm(n, d) == IF d = 0 THEN <<Sign(n), 0>> ELSE Reduce(n, d, GCD(Abs(n), Abs(d)))

NaN == <<0, 0>>
PosInf == <<1, 0>>
NegInf == <<-1, 0>>
Zero == <<0, 1>>
One == <<1, 1>>

R(n) == <<n, 1>>
Q(n, d) == Norm(n, d)

IsNaN(a) == a = NaN
IsInf(a) == a[2] = 0 /\ a[1] # 0
IsFinite(a) == a[2] > 0

Neg(a) == <<-a[1], a[2]>>

Add(a, b) ==
  IF IsNaN(a) \/ IsNaN(b) THEN NaN
  ELSE IF IsInf(a) /\ IsInf(b) THEN (IF a = b THEN a ELSE NaN)
  ELSE IF IsInf(a) THEN a
  ELSE IF IsInf(b) THEN b
  ELSE Norm(a[1] * b[2] + b[1] * a[2], a[2] * b[2])

Sub(a, b) == Add(a, Neg(b))

Mul(a, b) == Norm(a[1] * b[1], a[2] * b[2])

\* 1/0 = +inf (zero carries no sign here), 1/inf = 0, 1/nan = nan
Recip(a) == IF a = Zero THEN PosInf ELSE Norm(a[2] * Sign(a[1]), Abs(a[1]))

Div(a, b) == Mul(a, Recip(b))

AbsR(a) == <<Abs(a[1]), a[2]>>

\* a < b as IEEE decides it: every comparison with NaN is false
Lt(a, b) ==
  IF IsNaN(a) \/ IsNaN(b) \/ a = b THEN FALSE
  ELSE IF a = NegInf \/ b = PosInf THEN TRUE
  ELSE IF a = PosInf \/ b = NegInf THEN FALSE
  ELSE a[1] * b[2] < b[1] * a[2]

Gt(a, b) == Lt(b, a)
Eq(a, b) == ~IsNaN(a) /\ ~IsNaN(b) /\ a = b
Le(a, b) == Lt(a, b) \/ Eq(a, b)
Ge(a, b) == Le(b, a)

\* a ** p for an integer exponent p (numpy float power: 0 ** 0 = 1, 0 ** -1 = inf)
RECURSIVE Pow(_, _)
Pow(a, p) ==
  IF p = 0 THEN One
  ELSE IF p < 0 THEN Recip(Pow(a, -p))
  ELSE Mul(a, Pow(a, p - 1))

-----------------------------------------------------------------------------
(* numpy reductions over a 1-D array, modelled as a sequence of numbers.   *)

RECURSIVE np_sum_upto(_, _)
np_sum_upto(x, n) == IF n = 0 THEN Zero ELSE Add(np_sum_upto(x, n - 1), x[n])

np_sum(x) == Let(x, LAMBDA v : np_sum_upto(v, Len(v)))

np_cumsum(x) == Let(x, LAMBDA v : [i \in 1..Len(v) |-> np_sum_upto(v, i)])

\* np.max / np.min propagate NaN
Max2(m, v) == IF IsNaN(m) \/ IsNaN(v) THEN NaN ELSE IF Lt(m, v) THEN v ELSE m
Min2(m, v) == IF IsNaN(m) \/ IsNaN(v) THEN NaN ELSE IF Lt(v, m) THEN v ELSE m

RECURSIVE np_max_upto(_, _)
np_max_upto(x, n) ==
  IF n = 1 THEN x[1] ELSE Let(np_max_upto(x, n - 1), LAMBDA m : Max2(m, x[n]))

np_max(x) == Let(x, LAMBDA v : np_max_upto(v, Len(v)))

RECURSIVE np_min_upto(_, _)
np_min_upto(x, n) ==
  IF n = 1 THEN x[1] ELSE Let(np_min_upto(x, n - 1), LAMBDA m : Min2(m, x[n]))

np_min(x) == Let(x, LAMBDA v : np_min_upto(v, Len(v)))

\* ndarray.mean(): the mean of an empty array is 0/0 = nan (a warning, no exception)
np_mean(x) == Let(x, LAMBDA v : Div(np_sum(v), R(Len(v))))

\* np.flatnonzero(tag).tolist(): the 0-based positions of the hits
flatnonzero(tag) ==
  Let(tag, LAMBDA t : LET hit(i) == t[i + 1] IN SelectSeq([i \in 1..Len(t) |-> i - 1], hit))

\* np.in1d(gene_list, gene_set): the boolean tag indicator
in1d(gene_list, gene_set) == [i \in 1..Len(gene_list) |-> gene_list[i] \in gene_set]

\* True -> 1, False -> 0, as numpy's arithmetic on a boolean array reads it
Ind(b) == IF b THEN One ELSE Zero

\* sorted(d.keys()) for the integer names of a dictionary
SetMin(S) == CHOOSE a \in S : \A b \in S : a <= b

RECURSIVE sorted(_)
sorted(S) == IF S = {} THEN <<>> ELSE <<SetMin(S)>> \o sorted(S \ {SetMin(S)})

Reverse(x) == Let(x, LAMBDA v : [i \in 1..Len(v) |-> v[Len(v) + 1 - i]])

RECURSIVE flatten(_)
flatten(m) == IF m = <<>> THEN <<>> ELSE Head(m) \o flatten(Tail(m))

\* the number of elements of x that satisfy Test
Count(x, Test(_)) == Len(SelectSeq(x, Test))

-----------------------------------------------------------------------------
(* np.random.RandomState.  The Mersenne twister is abstracted to a small   *)
(* congruential generator: what matters is that a source is a state, that  *)
(* every draw advances the state, and that the stream is a function of the *)
(* seed.  A source is a record [state, shuffles]: shuffles counts the      *)
(* calls of rs.shuffle made on it.                                         *)

RsStates == 0..15

RsStep(s) == (5 * s + 3) % 16

\* np.random.RandomState(seed)
RandomState(seed) == [state |-> seed % 16, shuffles |-> 0]

Swap(x, i, j) == [x EXCEPT ![i] = x[j], ![j] = x[i]]

\* the loop of RandomState.shuffle: for i in reversed(range(1, n)):
\*     j = rk_interval(i, state); x[i], x[j] = x[j], x[i]        (1-based here)
RECURSIVE FisherYates(_, _, _)
FisherYates(x, i, s) ==
  IF i < 2 THEN [x |-> x, s |-> s]
  ELSE Let(RsStep(s), LAMBDA s1 :
         Let(Swap(x, i, 1 + (s1 % i)), LAMBDA y : FisherYates(y, i - 1, s1)))

\* rs.shuffle(x): x rearranged in place (along its first axis), rs advanced
rs_shuffle(x, rs) ==
  Let(x, LAMBDA v : Let(FisherYates(v, Len(v), rs.state), LAMBDA r :
    [x |-> r.x, rs |-> [state |-> r.s, shuffles |-> rs.shuffles + 1]]))

\* rs.shuffle applied to each array of xs in turn: done holds the arrays
\* already shuffled
RECURSIVE ShuffleFrom(_, _, _)
ShuffleFrom(done, xs, rs) ==
  IF xs = <<>> THEN [xs |-> done, rs |-> rs]
  ELSE Let(rs_shuffle(Head(xs), rs), LAMBDA h :
         Let(done \o <<h.x>>, LAMBDA d : Let(Tail(xs), LAMBDA t :
           ShuffleFrom(d, t, h.rs))))

ShuffleEach(xs, rs) ==
  Let(xs, LAMBDA v : Let(rs, LAMBDA r : ShuffleFrom(<<>>, v, r)))

-----------------------------------------------------------------------------
(* enrichment_score and enrichment_score_tensor.                           *)
(* A result is a record [outcome, es, esnull, hit_ind, RES, rs]: outcome   *)
(* is "ok" or the exception that ended the call, rs the random source as   *)
(* the call leaves it.                                                     *)

Raise(exc, rs) ==
  [outcome |-> exc, es |-> <<>>, esnull |-> <<>>, hit_ind |-> <<>>, RES |-> <<>>,
   rs |-> rs]

\* es_where with >= for >: a tie in magnitude would yield the maximum
es_where_tie_max(max_ES, min_ES) ==
  IF Ge(AbsR(max_ES), AbsR(min_ES)) THEN max_ES ELSE min_ES

\* np.where(np.abs(max_ES) > np.abs(min_ES), max_ES, min_ES)
es_where(max_ES, min_ES) ==
  IF Gt(AbsR(max_ES), AbsR(min_ES)) THEN max_ES ELSE min_ES

\* lines 76-77
ES_of_RES(RES) ==
  Let(RES, LAMBDA r : Let(np_max(r), LAMBDA max_ES :
                        Let(np_min(r), LAMBDA min_ES : es_where(max_ES, min_ES))))

\* enrichment_score, lines 67-75, for one row of tag_indicator
RES_of_row(tag_indicator, correl_vector, N) ==
  Let([i \in 1..N |-> Ind(tag_indicator[i])], LAMBDA tags :
  Let(np_sum(tags), LAMBDA Nhint :
  Let(np_sum([i \in 1..N |-> Mul(correl_vector[i], tags[i])]), LAMBDA sum_correl_tag :
  Let(Sub(R(N), Nhint), LAMBDA Nmiss :
  Let(Div(One, sum_correl_tag), LAMBDA norm_tag :
  Let(Div(One, Nmiss), LAMBDA norm_no_tag :
    np_cumsum([i \in 1..N |->
      Sub(Mul(Mul(tags[i], correl_vector[i]), norm_tag),
          Mul(Sub(One, tags[i]), norm_no_tag))])))))))

\* weighted without np.abs: the correlations keep their signs
weighted_signed(correl_vector, weighted_score_type) ==
  IF weighted_score_type = 0
    THEN [i \in 1..Len(correl_vector) |-> One]
    ELSE [i \in 1..Len(correl_vector) |-> Pow(correl_vector[i], weighted_score_type)]

\* lines 48-51
weighted(correl_vector, weighted_score_type) ==
  IF weighted_score_type = 0
    THEN [i \in 1..Len(correl_vector) |-> One]
    ELSE [i \in 1..Len(correl_vector) |->
            Pow(AbsR(correl_vector[i]), weighted_score_type)]

enrichment_score(gene_list, gene_set, weighted_score_type, correl_vector, esnull, rs) ==
  Let(Len(gene_list), LAMBDA N :
  Let(in1d(gene_list, gene_set), LAMBDA tag_indicator :
  Let(weighted(correl_vector, weighted_score_type), LAMBDA cv :
    IF esnull # 0
      THEN \* np.tile, then rs.shuffle on every row; returns es.tolist() alone
           Let(ShuffleEach([i \in 1..esnull |-> tag_indicator], rs), LAMBDA sh :
             [outcome |-> "ok", es |-> <<>>,
              esnull |-> <<[i \in 1..esnull |-> ES_of_RES(RES_of_row(sh.xs[i], cv, N))]>>,
              hit_ind |-> <<>>, RES |-> <<>>, rs |-> sh.rs])
      ELSE Let(RES_of_row(tag_indicator, cv, N), LAMBDA RES :
             [outcome |-> "ok", es |-> <<ES_of_RES(RES)>>, esnull |-> <<>>,
              hit_ind |-> <<flatnonzero(tag_indicator)>>, RES |-> <<RES>>, rs |-> rs]))))

\* lines 161-163 for one (axis 0, axis 2) column of the tensors: the running
\* curve along axis 1
REStensor_column(tag, cor, weighted_score_type) ==
  Let(Len(tag), LAMBDA N :
  Let([i \in 1..N |-> Pow(Mul(Ind(tag[i]), cor[i]), weighted_score_type)],
      LAMBDA rank_alpha :
  Let([i \in 1..N |-> Sub(One, Ind(tag[i]))], LAMBDA no_tag :
  Let(np_sum(rank_alpha), LAMBDA P_GW_denominator :
  Let(np_sum(no_tag), LAMBDA P_NG_denominator :
    np_cumsum([i \in 1..N |->
      Sub(Div(rank_alpha[i], P_GW_denominator),
          Div(no_tag[i], P_NG_denominator))]))))))

\* line 166: REStensor / len(keys_sorted)
scaled(col, scale, len_keys_sorted) ==
  IF scale THEN [i \in 1..Len(col) |-> Div(col[i], R(len_keys_sorted))] ELSE col

\* lines 167-173: the ES of one column
esmatrix_entry(RES, single) == IF single THEN np_sum(RES) ELSE ES_of_RES(RES)

\* lines 175-178: the observed replicate is the last index of axis 2
es_tensor_result(REStensor, esmatrix, hit_ind, A, C, rs) ==
  [outcome |-> "ok",
   es |-> [a \in 1..A |-> esmatrix[a][C]],
   esnull |-> [a \in 1..A |-> SubSeq(esmatrix[a], 1, C - 1)],
   hit_ind |-> hit_ind,
   RES |-> [a \in 1..A |-> REStensor[a][C]],
   rs |-> rs]

\* lines 160-178.  perm_tag_tensor[a][c] is the column (along axis 1) at index a
\* of axis 0 and index c of axis 2; cor[a][c] is the correlation broadcast to it.
es_tensor_tail(perm_tag_tensor, cor, hit_ind, weighted_score_type, scale, single, len_keys_sorted, rs) ==
  Let(Len(perm_tag_tensor), LAMBDA A :
  Let(Len(perm_tag_tensor[1]), LAMBDA C :
  Let([a \in 1..A |-> [c \in 1..C |->
         scaled(REStensor_column(perm_tag_tensor[a][c], cor[a][c], weighted_score_type),
                scale, len_keys_sorted)]], LAMBDA REStensor :
  Let([a \in 1..A |-> [c \in 1..C |-> esmatrix_entry(REStensor[a][c], single)]],
      LAMBDA esmatrix :
    es_tensor_result(REStensor, esmatrix, hit_ind, A, C, rs)))))

\* line 133: np.repeat(tag_indicator, C) flattens the M x N indicator and
\* repeats every element C = nperm + 1 times
np_repeat(tag_indicator, N, C) ==
  [f \in 1..(Len(tag_indicator) * N * C) |->
     tag_indicator[(((f - 1) \div C) \div N) + 1][(((f - 1) \div C) % N) + 1]]

\* the position of element [m, n, k] in the buffer after reshape((M, N, C)),
\* with k counted the other way round
TensorAt_replicate_major(m, n, k, N, C) == ((m - 1) * C + (k - 1)) * N + n

\* the position of element [m, n, k] in the buffer after reshape((M, N, C))
TensorAt(m, n, k, N, C) == ((m - 1) * N + (n - 1)) * C + k

\* perm_tag_tensor[m, :, k]: the view that np.apply_along_axis hands to rs.shuffle
Column(buf, m, k, N, C) == [n \in 1..N |-> buf[TensorAt(m, n, k, N, C)]]

\* the elements of x written to the first n positions of the view [m, :, k]
RECURSIVE write_column(_, _, _, _, _, _, _)
write_column(buf, x, n, m, k, N, C) ==
  IF n = 0 THEN buf
  ELSE Let([buf EXCEPT ![TensorAt(m, n, k, N, C)] = x[n]], LAMBDA b :
         write_column(b, x, n - 1, m, k, N, C))

\* rs.shuffle on the view [m, :, k]: the buffer is rearranged in place at the
\* positions of the view
shuffle_column(buf, m, k, N, C, rs) ==
  Let(rs_shuffle(Column(buf, m, k, N, C), rs), LAMBDA h :
    [buf |-> write_column(buf, h.x, N, m, k, N, C), rs |-> h.rs])

\* line 135: the first j views [m, :, k], k < nperm, shuffled in the order
\* np.apply_along_axis visits them (m first, then k)
RECURSIVE shuffle_columns(_, _, _, _, _, _)
shuffle_columns(buf, j, N, C, nperm, rs) ==
  IF j = 0 THEN [buf |-> buf, rs |-> rs]
  ELSE Let(shuffle_columns(buf, j - 1, N, C, nperm, rs), LAMBDA b :
         shuffle_column(b.buf, ((j - 1) \div nperm) + 1, ((j - 1) % nperm) + 1,
                        N, C, b.rs))

\* lines 133-135: the tensor of hit indicators, [m][k] the column of gene set m
\* in replicate k, and the random source after the shuffles
perm_tag_tensor_1d(tag_indicator, N, nperm, rs) ==
  Let(Len(tag_indicator), LAMBDA M :
  Let(shuffle_columns(np_repeat(tag_indicator, N, nperm + 1), M * nperm, N,
                      nperm + 1, nperm, rs), LAMBDA sh :
    [tensor |-> [m \in 1..M |-> [k \in 1..(nperm + 1) |->
                   Column(sh.buf, m, k, N, nperm + 1)]],
     rs |-> sh.rs]))

\* lines 125-139: the 1-D branch (prerank, ssGSEA)
es_tensor_1d(keys_sorted, cor_mat, gene_sets, keys, weighted_score_type, nperm, scale, single, rs) ==
  Let(Len(keys_sorted), LAMBDA N :
  Let(Len(keys), LAMBDA M :
  Let([i \in 1..N |-> AbsR(cor_mat[i])], LAMBDA absc :
  Let([m \in 1..M |-> in1d(keys_sorted, gene_sets[keys[m]])], LAMBDA tag_indicator :
  Let([m \in 1..M |-> flatnonzero(tag_indicator[m])], LAMBDA hit_ind :
    IF nperm = 0
      THEN \* np.apply_along_axis refuses an iteration dimension of 0
           Raise("ValueError", rs)
      ELSE \* the columns [m, :, k] for k < nperm are shuffled in the order
           \* np.apply_along_axis visits them; column nperm is left alone
           Let(perm_tag_tensor_1d(tag_indicator, N, nperm, rs), LAMBDA sh :
             es_tensor_tail(sh.tensor,
                            [m \in 1..M |-> [k \in 1..(nperm + 1) |-> absc]],
                            hit_ind, weighted_score_type, scale, single, N, sh.rs)))))))

\* lines 141-153: the 2-D branch (phenotype permutation).  np.dstack stacks the
\* gene sets along the third axis: axis 0 is the replicate, axis 2 the gene set.
es_tensor_2d(keys_sorted, cor_mat, gene_sets, keys, weighted_score_type, scale, single, rs) ==
  Let(Len(keys_sorted), LAMBDA Rn :
  Let(Len(keys), LAMBDA M :
  Let([r \in 1..Rn |-> [m \in 1..M |-> in1d(keys_sorted[r], gene_sets[keys[m]])]],
      LAMBDA perm_tag_tensor :
  Let([r \in 1..Rn |-> flatnonzero(perm_tag_tensor[r][M])], LAMBDA hit_ind :
    es_tensor_tail(perm_tag_tensor,
                   [r \in 1..Rn |-> [m \in 1..M |->
                      [i \in 1..Len(cor_mat[r]) |-> AbsR(cor_mat[r][i])]]],
                   hit_ind, weighted_score_type, scale, single, Rn, rs)))))

\* gene_mat is [ndim, v]: v a gene list (ndim 1) or a matrix of gene lists, one
\* row per replicate (ndim 2); cor_mat has the same shape.
enrichment_score_tensor(gene_mat, cor_mat, gene_sets, weighted_score_type, nperm, scale, single, rs) ==
  IF weighted_score_type = 0
    THEN \* line 115 reads N, a local that is assigned only on line 128
         Raise("UnboundLocalError", rs)
  ELSE IF weighted_score_type < 0 THEN Raise("SystemExit", rs)
  ELSE IF gene_mat.ndim = 1
    THEN es_tensor_1d(gene_mat.v, cor_mat, gene_sets, sorted(DOMAIN gene_sets),
                      weighted_score_type, nperm, scale, single, rs)
  ELSE IF gene_mat.ndim = 2
    THEN es_tensor_2d(gene_mat.v, cor_mat, gene_sets, sorted(DOMAIN gene_sets),
                      weighted_score_type, scale, single, rs)
  ELSE Raise("SystemExit", rs)

-----------------------------------------------------------------------------
(* Sorting and searching as the significance engine uses them.             *)

\* numpy's ordering for sort and searchsorted: NaN sorts after every number
np_less(a, b) == Lt(a, b) \/ (IsNaN(b) /\ ~IsNaN(a))

\* the sorted sequence x with v inserted after the items that are not greater
np_insert(x, v) ==
  Let(Len(SelectSeq(x, LAMBDA a : ~np_less(v, a))), LAMBDA n :
    SubSeq(x, 1, n) \o <<v>> \o SubSeq(x, n + 1, Len(x)))

RECURSIVE np_sort_upto(_, _)
np_sort_upto(x, n) ==
  IF n = 0 THEN <<>>
  ELSE Let(np_sort_upto(x, n - 1), LAMBDA s : np_insert(s, x[n]))

\* np.sort(x)
np_sort(x) == Let(x, LAMBDA v : np_sort_upto(v, Len(v)))

Mid(lo, hi) == lo + ((hi - lo) \div 2)

\* np.searchsorted(arr, key, side): the binary search, on whatever order arr has
RECURSIVE binsearch(_, _, _, _, _)
binsearch(arr, key, side, imin, imax) ==
  IF imin >= imax THEN imin
  ELSE Let(Mid(imin, imax), LAMBDA mid :
    IF (IF side = "left" THEN np_less(arr[mid + 1], key)
        ELSE ~np_less(key, arr[mid + 1]))
      THEN binsearch(arr, key, side, mid + 1, imax)
      ELSE binsearch(arr, key, side, imin, mid))

searchsorted(arr, key, side) == binsearch(arr, key, side, 0, Len(arr))

\* Python's sorted() on a list of floats (CPython's list.sort, fewer than 64
\* items: one initial run, then binary insertion), which compares with < only,
\* so a NaN stays wherever the comparisons leave it.
RECURSIVE count_run(_, _, _)
count_run(a, k, descending) ==
  IF k > Len(a) THEN k - 1
  ELSE IF descending = Lt(a[k], a[k - 1]) THEN count_run(a, k + 1, descending)
  ELSE k - 1

RECURSIVE py_bisect(_, _, _, _)
py_bisect(a, pivot, l, r) ==
  IF l >= r THEN l
  ELSE Let(Mid(l, r), LAMBDA p :
    IF Lt(pivot, a[p + 1]) THEN py_bisect(a, pivot, l, p)
    ELSE py_bisect(a, pivot, p + 1, r))

\* a with the item at position start moved to (0-based) position l
MoveTo(a, start, l) ==
  SubSeq(a, 1, l) \o <<a[start]>> \o SubSeq(a, l + 1, start - 1)
    \o SubSeq(a, start + 1, Len(a))

RECURSIVE binarysort(_, _)
binarysort(a, start) ==
  IF start > Len(a) THEN a
  ELSE Let(py_bisect(a, a[start], 0, start - 1), LAMBDA l :
         Let(MoveTo(a, start, l), LAMBDA b : binarysort(b, start + 1)))

\* the list with its initial run of n items, reversed when it descends
WithRun(a, n, descending) ==
  Let(IF descending THEN Reverse(SubSeq(a, 1, n)) \o SubSeq(a, n + 1, Len(a)) ELSE a,
      LAMBDA b : binarysort(b, n + 1))

py_sorted(x) ==
  Let(x, LAMBDA a :
    IF Len(a) < 2 THEN a
    ELSE Let(Lt(a[2], a[1]), LAMBDA descending :
           Let(count_run(a, 3, descending), LAMBDA n : WithRun(a, n, descending))))

-----------------------------------------------------------------------------
(* The significance engine: gsea_pval and gsea_significance.               *)

IsNonNeg(a) == Ge(a, Zero)
IsNeg(a) == Lt(a, Zero)

\* np.select([es < 0, es >= 0], choicelist): 0 where neither condition holds
gsea_pval_row(es, row) ==
  IF Lt(es, Zero)
    THEN Div(R(Count(row, LAMBDA a : Lt(a, es))), R(Count(row, IsNeg)))
  ELSE IF Ge(es, Zero)
    THEN Div(R(Count(row, LAMBDA a : Ge(a, es))), R(Count(row, IsNonNeg)))
  ELSE Zero

gsea_pval(es, esnull) == [i \in 1..Len(es) |-> gsea_pval_row(es[i], esnull[i])]

\* lines 507-512: enrNull[enrNull >= 0].mean() and enrNull[enrNull < 0].mean()
esnull_meanPos(enrNull) == np_mean(SelectSeq(enrNull, IsNonNeg))
esnull_meanNeg(enrNull) == np_mean(SelectSeq(enrNull, IsNeg))

\* the normalization with the magnitude of meanNeg as the divisor
normalized_by_magnitude(v, meanPos, meanNeg) ==
  IF Ge(v, Zero) THEN Div(v, meanPos)
  ELSE IF Lt(v, Zero) THEN Div(Neg(v), AbsR(meanNeg))
  ELSE Zero

\* lines 521-527: np.select([v >= 0, v < 0], [v / meanPos, -v / meanNeg])
normalized(v, meanPos, meanNeg) ==
  IF Ge(v, Zero) THEN Div(v, meanPos)
  ELSE IF Lt(v, Zero) THEN Div(Neg(v), meanNeg)
  ELSE Zero

\* lines 507-527 for one gene set: its normalized score and normalized nulls
normalized_row(es, enrNull) ==
  Let(esnull_meanPos(enrNull), LAMBDA meanPos :
  Let(esnull_meanNeg(enrNull), LAMBDA meanNeg :
    [score |-> normalized(es, meanPos, meanNeg),
     nulls |-> [k \in 1..Len(enrNull) |-> normalized(enrNull[k], meanPos, meanNeg)]]))

nEnrichmentScores(rows) == [i \in 1..Len(rows) |-> rows[i].score]

nEnrichmentNulls(rows) == [i \in 1..Len(rows) |-> rows[i].nulls]

FDR_SENTINEL == 1000000000

\* lines 549-558: the four counts of the FDR of one gene set
fdr_counts(nes, nvals, nnes) ==
  IF Ge(nes, Zero)
    THEN [allPos |-> Len(nvals) - searchsorted(nvals, Zero, "left"),
          allHigherAndPos |-> Len(nvals) - searchsorted(nvals, nes, "left"),
          nesPos |-> Len(nnes) - searchsorted(nnes, Zero, "left"),
          nesHigherAndPos |-> Len(nnes) - searchsorted(nnes, nes, "left")]
    ELSE [allPos |-> searchsorted(nvals, Zero, "left"),
          allHigherAndPos |-> searchsorted(nvals, nes, "right"),
          nesPos |-> searchsorted(nnes, Zero, "left"),
          nesHigherAndPos |-> searchsorted(nnes, nes, "right")]

\* lines 559-566: a ZeroDivisionError of Python's float division is caught
fdr_of_counts(c) ==
  IF c.allPos = 0 \/ c.nesPos = 0 \/ c.nesHigherAndPos = 0
    THEN R(FDR_SENTINEL)
    ELSE Let(Div(Q(c.allHigherAndPos, c.allPos), Q(c.nesHigherAndPos, c.nesPos)),
             LAMBDA ratio : IF Lt(ratio, One) THEN ratio ELSE One)

fdr_of(nes, nvals, nnes) ==
  Let(fdr_counts(nes, nvals, nnes), LAMBDA c : fdr_of_counts(c))

\* zip(enrichment_scores, nEnrichmentScores, enrichmentPVals, fdrs)
gsea_significance(enrichment_scores, enrichment_nulls) ==
  Let(enrichment_scores, LAMBDA es : Let(enrichment_nulls, LAMBDA esnull :
  Let([i \in 1..Len(es) |-> normalized_row(es[i], esnull[i])], LAMBDA rows :
  Let(np_sort(flatten(nEnrichmentNulls(rows))), LAMBDA nvals :
  Let(py_sorted(nEnrichmentScores(rows)), LAMBDA nnes :
  Let(gsea_pval(es, esnull), LAMBDA enrichmentPVals :
    [i \in 1..Len(es) |->
       [es |-> es[i], nes |-> rows[i].score, pval |-> enrichmentPVals[i],
        fdr |-> fdr_of(rows[i].score, nvals, nnes)]]))))))

-----------------------------------------------------------------------------
(* The ranking metric.  An expression table is [index, values]: index the  *)
(* gene names, values[g][s] the expression of gene g in sample s.  Of the  *)
(* five methods the two that stay rational are modelled (diff_of_classes,  *)
(* ratio_of_classes); any other name takes the error branch.               *)

Methods == {"diff_of_classes", "ratio_of_classes", "t_test"}

\* the elements of x at the positions where mask is true
Masked(x, mask) ==
  Let(SelectSeq([i \in 1..Len(x) |-> i], LAMBDA i : mask[i]), LAMBDA at :
    [j \in 1..Len(at) |-> x[at[j]]])

\* the metric of one gene from the means of its two classes
class_metric(method, pos_mean, neg_mean) ==
  IF method = "diff_of_classes" THEN Sub(pos_mean, neg_mean)
  ELSE Div(pos_mean, neg_mean)

\* ndarray.std(axis=1)**2 (ddof 0) and the groupby's std()**2 (ddof 1): the sum
\* of the squared deviations from the mean over n - ddof
np_var(x, ddof) ==
  Let(np_mean(x), LAMBDA mean :
    Div(np_sum([i \in 1..Len(x) |-> Mul(Sub(x[i], mean), Sub(x[i], mean))]),
        R(Len(x) - ddof)))

\* a quotient num / np.sqrt(d2) is held as the rational sign(num) * num^2 / d2,
\* its signed square: the signed square root recovers it, and two quotients
\* compare as their signed squares do
SignedSquare(a) == Mul(a, AbsR(a))

\* lines 208-209 and 302: both standard deviations are squared and divided by
\* denom, the length of the gene axis
t_test(pos_mean, neg_mean, pos_std2, neg_std2, denom) ==
  Div(SignedSquare(Sub(pos_mean, neg_mean)),
      Add(Div(pos_std2, R(denom)), Div(neg_std2, R(denom))))

\* the metric of one gene from the values of its two classes
metric_of(method, pos_values, neg_values, ddof, denom) ==
  IF method = "t_test"
    THEN t_test(np_mean(pos_values), np_mean(neg_values),
                np_var(pos_values, ddof), np_var(neg_values, ddof), denom)
    ELSE class_metric(method, np_mean(pos_values), np_mean(neg_values))

\* x.argsort(): the (1-based) positions of x in ascending order; on arrays this
\* short numpy's sort is an insertion sort, which keeps equal values in order
argsort_insert(ind, x, j) ==
  Let(Len(SelectSeq(ind, LAMBDA s : ~np_less(x[j], x[s]))), LAMBDA n :
    SubSeq(ind, 1, n) \o <<j>> \o SubSeq(ind, n + 1, Len(ind)))

RECURSIVE argsort_upto(_, _)
argsort_upto(x, n) ==
  IF n = 0 THEN <<>>
  ELSE Let(argsort_upto(x, n - 1), LAMBDA ind : argsort_insert(ind, x, n))

argsort(x) == Let(x, LAMBDA v : argsort_upto(v, Len(v)))

\* lines 197-218: the metric of every gene in every replicate
cor_mat_of(perm_cor_tensor, method, pos, neg, classes, G) ==
  Let([s \in 1..Len(classes) |-> classes[s] = pos], LAMBDA posmask :
  Let([s \in 1..Len(classes) |-> classes[s] = neg], LAMBDA negmask :
    [k \in 1..Len(perm_cor_tensor) |-> [g \in 1..G |->
       Let([s \in 1..Len(classes) |-> perm_cor_tensor[k][s][g]], LAMBDA column :
         metric_of(method, Masked(column, posmask), Masked(column, negmask), 0, G))]]))

\* lines 221-232.  ndarray.take without an axis indexes the flattened array:
\* every index is below the number of genes, so every value comes from row 0
taken(mat, cor_mat_ind, ascending) ==
  [k \in 1..Len(cor_mat_ind) |->
     Let([j \in 1..Len(cor_mat_ind[k]) |-> mat[1][cor_mat_ind[k][j]]], LAMBDA row :
       IF ascending THEN row ELSE Reverse(row))]

rank_metric_tensor(exprs, method, permutation_num, pos, neg, classes, ascending, rs) ==
  Let(exprs.index, LAMBDA genes :
  \* expr_mat = exprs.values.T: one row per sample
  Let([s \in 1..Len(classes) |-> [g \in 1..Len(genes) |-> exprs.values[g][s]]],
      LAMBDA expr_mat :
  \* for arr in perm_cor_tensor[:-1]: rs.shuffle(arr)
  Let(ShuffleEach([k \in 1..permutation_num |-> expr_mat], rs), LAMBDA sh :
    IF method \notin Methods
      THEN [outcome |-> "SystemExit", genes_mat |-> <<>>, cor_mat |-> <<>>,
            rs |-> sh.rs]
      ELSE Let(cor_mat_of(sh.xs \o <<expr_mat>>, method, pos, neg, classes, Len(genes)),
               LAMBDA cor_mat :
           Let([k \in 1..(permutation_num + 1) |-> argsort(cor_mat[k])],
               LAMBDA cor_mat_ind :
             [outcome |-> "ok",
              genes_mat |-> taken([k \in 1..(permutation_num + 1) |-> genes],
                                  cor_mat_ind, ascending),
              cor_mat |-> taken(cor_mat, cor_mat_ind, ascending),
              rs |-> sh.rs])))))

\* sr.sort_values(ascending=ascending): the ascending argsort, reversed as a
\* whole for a descending sort (pandas of the code's time; NaN is placed last)
sort_values_index(x, ascending) ==
  Let(argsort(x), LAMBDA ind :
    IF ascending THEN ind
    ELSE Reverse(SelectSeq(ind, LAMBDA j : ~IsNaN(x[j])))
           \o SelectSeq(ind, LAMBDA j : IsNaN(x[j])))

\* df.groupby(by=classes, axis=1).mean()[label]: a label that no sample carries
\* is a missing column
ranking_metric(df, method, phenoPos, phenoNeg, classes, ascending) ==
  Let(Len(df.index), LAMBDA G :
  Let([s \in 1..Len(classes) |-> classes[s] = phenoPos], LAMBDA posmask :
  Let([s \in 1..Len(classes) |-> classes[s] = phenoNeg], LAMBDA negmask :
    IF method \notin Methods
      THEN [outcome |-> "SystemExit", gene_name |-> <<>>, rank |-> <<>>]
    ELSE IF (\A s \in 1..Len(classes) : ~posmask[s])
              \/ (\A s \in 1..Len(classes) : ~negmask[s])
      THEN [outcome |-> "KeyError", gene_name |-> <<>>, rank |-> <<>>]
    ELSE Let([g \in 1..G |->
                metric_of(method, Masked(df.values[g], posmask),
                          Masked(df.values[g], negmask), 1, G)], LAMBDA sr :
         Let(sort_values_index(sr, ascending), LAMBDA order :
           [outcome |-> "ok", gene_name |-> [j \in 1..G |-> df.index[order[j]]],
            rank |-> [j \in 1..G |-> sr[order[j]]]])))))

\* shuffle_list: a shuffled copy
shuffle_list(gene_list, rs) == rs_shuffle(gene_list, rs)

-----------------------------------------------------------------------------
(* gsea_compute and gsea_compute_ss.  A result is a record [outcome, sig,  *)
(* es, esnull, hit_ind, RES, subsets, rs]: sig the zipped (es, nes, pval,  *)
(* fdr) records, es and esnull what enrichment_score_tensor handed to      *)
(* gsea_significance.                                                      *)

RaiseRun(exc, subsets, rs) ==
  [outcome |-> exc, sig |-> <<>>, es |-> <<>>, esnull |-> <<>>, hit_ind |-> <<>>,
   RES |-> <<>>, subsets |-> subsets, rs |-> rs]

\* lines 425 and 442: gsea_significance(es, esnull), hit_ind, RES, subsets
significance_of(tensor, subsets) ==
  Let(tensor, LAMBDA t :
    IF t.outcome # "ok" THEN RaiseRun(t.outcome, subsets, t.rs)
    ELSE [outcome |-> "ok", sig |-> gsea_significance(t.es, t.esnull), es |-> t.es,
          esnull |-> t.esnull, hit_ind |-> t.hit_ind, RES |-> t.RES,
          subsets |-> subsets, rs |-> t.rs])

\* the random source the def statements created, whatever the seed
shared_RandomState(seed) == defaultRs

\* np.random.RandomState(seed) as gsea_compute and gsea_compute_ss construct it
new_RandomState(seed) == RandomState(seed)

\* lines 366-378
gsea_compute_phenotype(data, gmt, n, weighted_score_type, method, phenoPos, phenoNeg, classes, ascending, subsets, rs) ==
  Let(rank_metric_tensor(data, method, n, phenoPos, phenoNeg, classes, ascending, rs),
      LAMBDA rmt :
    IF rmt.outcome # "ok" THEN RaiseRun(rmt.outcome, subsets, rmt.rs)
    ELSE significance_of(
           enrichment_score_tensor([ndim |-> 2, v |-> rmt.genes_mat], rmt.cor_mat, gmt,
                                   weighted_score_type, n, FALSE, FALSE, rmt.rs),
           subsets))

\* lines 400-409: keys_sorted is read before ranking_metric sorts the genes
gsea_compute_gene_set(data, gmt, n, weighted_score_type, method, phenoPos, phenoNeg, classes, ascending, prerank, subsets, rs) ==
  Let(IF prerank THEN [outcome |-> "ok", rank |-> data.rank]
      ELSE ranking_metric(data, method, phenoPos, phenoNeg, classes, ascending),
      LAMBDA ranked :
    IF ranked.outcome # "ok" THEN RaiseRun(ranked.outcome, subsets, rs)
    ELSE significance_of(
           enrichment_score_tensor([ndim |-> 1, v |-> data.index], ranked.rank, gmt,
                                   weighted_score_type, n, FALSE, FALSE, rs),
           subsets))

gsea_compute(data, gmt, n, weighted_score_type, permutation_type, method, phenoPos, phenoNeg, classes, ascending, seed, prerank) ==
  Let(sorted(DOMAIN gmt), LAMBDA subsets :
  Let(new_RandomState(seed), LAMBDA rs :
    IF permutation_type = "phenotype"
      THEN gsea_compute_phenotype(data, gmt, n, weighted_score_type, method, phenoPos,
                                  phenoNeg, classes, ascending, subsets, rs)
      ELSE gsea_compute_gene_set(data, gmt, n, weighted_score_type, method, phenoPos,
                                 phenoNeg, classes, ascending, prerank, subsets, rs)))

\* data is a Series [index, values]; the scale argument is not passed on
gsea_compute_ss(data, gmt, n, weighted_score_type, scale, seed) ==
  Let(sorted(DOMAIN gmt), LAMBDA subsets :
  Let(new_RandomState(seed), LAMBDA rs :
    significance_of(
      enrichment_score_tensor([ndim |-> 1, v |-> data.index], data.values, gmt,
                              weighted_score_type, n, FALSE, TRUE, rs),
      subsets)))

-----------------------------------------------------------------------------
(* The inputs the calls are made with.                                     *)

MaxGenes == 3
MaxPerm == 2
MaxSets == 2

CorVals == {-2, 0, 1}
Exponents == {-1, 0, 1, 2}
Seeds == {0, 1}
Entropy == {7}

\* a gene set of one gene that no gene list holds
ForeignSet == {0}

\* a ranked list: gene i is named i; one correlation per gene, the genes in
\* descending order of correlation
RankedLists ==
  UNION {{[index |-> [i \in 1..N |-> i], rank |-> [i \in 1..N |-> R(cv[i])]] :
            cv \in {c \in [1..N -> CorVals] : \A i \in 1..(N - 1) : c[i] >= c[i + 1]}} :
         N \in 1..MaxGenes}

\* the scenario of the specification: genes A..E with correlations 5..1
Scenario == [index |-> <<1, 2, 3, 4, 5>>, rank |-> <<R(5), R(4), R(3), R(2), R(1)>>]

\* the list of MaxGenes genes with the correlations MaxGenes, .., 1
Descending ==
  [index |-> [i \in 1..MaxGenes |-> i], rank |-> [i \in 1..MaxGenes |-> R(MaxGenes + 1 - i)]]

GenesOf(data) == {data.index[i] : i \in 1..Len(data.index)}

\* the gene sets tried on a list: its subsets, and a set of a foreign gene
GeneSets(data) == (SUBSET GenesOf(data)) \cup {ForeignSet}

\* the gene sets that make up the collections of several gene sets
PoolSets == {ForeignSet, {1}, {2, 3}}

\* a gmt dictionary: names 1..M, each with a gene set
Collections == UNION {[1..M -> PoolSets] : M \in 2..MaxSets}

SingleSets(data) == [{1} -> GeneSets(data)]

\* the seeds worth trying with nperm permutations
SeedsFor(nperm) == IF nperm = 0 THEN {0} ELSE Seeds

None == [op |-> "none"]

\* the numbers of permutations tried: none, and the most
Perms == {0, MaxPerm}

\* the calls of enrichment_score
Calls_enrichment_score ==
  UNION {UNION {{[op |-> "enrichment_score", data |-> data, gmt |-> gmt,
                  weighted_score_type |-> w, nperm |-> esnull, seed |-> seed] :
                   gmt \in SingleSets(data), w \in Exponents, seed \in SeedsFor(esnull)} :
                esnull \in Perms} :
         data \in RankedLists \cup {Scenario}}

\* the (weighted_score_type, scale, single) settings of enrichment_score_tensor:
\* every exponent in two-class mode without scaling, every mode with exponent 1
Settings ==
  {[weighted_score_type |-> w, scale |-> FALSE, single |-> FALSE] : w \in Exponents}
    \cup {[weighted_score_type |-> 1, scale |-> sc, single |-> si] :
            sc \in BOOLEAN, si \in BOOLEAN}

\* the calls of enrichment_score_tensor on a gene list (1-D) with one gene set
Calls_tensor_single ==
  UNION {UNION {{[op |-> "enrichment_score_tensor", ndim |-> 1, data |-> data,
                  gmt |-> gmt, weighted_score_type |-> s.weighted_score_type,
                  nperm |-> nperm, scale |-> s.scale, single |-> s.single,
                  seed |-> seed] :
                   gmt \in SingleSets(data), s \in Settings, seed \in SeedsFor(nperm)} :
                nperm \in Perms} :
         data \in RankedLists \cup {Scenario}}

\* the calls of enrichment_score_tensor on a gene list with several gene sets
Calls_tensor_batch ==
  {[op |-> "enrichment_score_tensor", ndim |-> 1, data |-> Descending, gmt |-> gmt,
    weighted_score_type |-> 1, nperm |-> MaxPerm, scale |-> FALSE, single |-> single,
    seed |-> seed] :
     gmt \in Collections, single \in BOOLEAN, seed \in Seeds}

\* the calls of enrichment_score_tensor on an array of three dimensions
Calls_tensor_3d ==
  {[op |-> "enrichment_score_tensor", ndim |-> 3, data |-> Descending, gmt |-> gmt,
    weighted_score_type |-> w, nperm |-> MaxPerm, scale |-> FALSE, single |-> FALSE,
    seed |-> seed] :
     gmt \in SingleSets(Descending), w \in {1, 2}, seed \in Seeds}

\* the expression of one gene in the three samples
Rows == {<<R(1), R(2), R(3)>>, <<R(3), R(1), R(0)>>, <<R(2), R(2), R(2)>>}

\* the phenotype labels of the three samples
Phenotypes == <<"pos", "pos", "neg">>

\* an expression table of up to MaxGenes genes
Tables ==
  UNION {{[index |-> [i \in 1..G |-> i], values |-> v] : v \in [1..G -> Rows]} :
           G \in 1..MaxGenes}

MethodNames == Methods \cup {"unknown"}

\* the calls of rank_metric_tensor
Calls_rank_metric_tensor ==
  UNION {{[op |-> "rank_metric_tensor", exprs |-> t, method |-> m,
           permutation_num |-> n, ascending |-> a, seed |-> seed] :
            t \in Tables, m \in MethodNames, a \in BOOLEAN, seed \in SeedsFor(n)} :
         n \in Perms}

\* the calls of ranking_metric
Calls_ranking_metric ==
  {[op |-> "ranking_metric", exprs |-> t, method |-> m, ascending |-> a] :
     t \in Tables, m \in MethodNames, a \in BOOLEAN}

Calls ==
  Calls_enrichment_score \cup Calls_tensor_single \cup Calls_tensor_batch
    \cup Calls_tensor_3d \cup Calls_rank_metric_tensor \cup Calls_ranking_metric

-----------------------------------------------------------------------------
(* One call of a function of the module: its arguments are chosen, the     *)
(* call runs to its end.                                                   *)

Init ==
  /\ pc = "called"
  /\ call \in Calls
  /\ ret = None
  /\ ref = None
  /\ \E e \in Entropy : defaultRs = RandomState(e)

\* the call returns (or raises): ret is what the caller gets
Return(r) ==
  /\ ret' = r
  /\ pc' = "done"
  /\ UNCHANGED <<call, defaultRs, ref>>

Do_enrichment_score ==
  /\ pc = "called"
  /\ call.op = "enrichment_score"
  /\ Return(enrichment_score(call.data.index, call.gmt[1], call.weighted_score_type,
                             call.data.rank, call.nperm, RandomState(call.seed)))

Do_enrichment_score_tensor ==
  /\ pc = "called"
  /\ call.op = "enrichment_score_tensor"
  /\ Return(enrichment_score_tensor([ndim |-> call.ndim, v |-> call.data.index],
                                    call.data.rank, call.gmt, call.weighted_score_type,
                                    call.nperm, call.scale, call.single,
                                    RandomState(call.seed)))

Do_rank_metric_tensor ==
  /\ pc = "called"
  /\ call.op = "rank_metric_tensor"
  /\ Return(rank_metric_tensor(call.exprs, call.method, call.permutation_num, "pos",
                               "neg", Phenotypes, call.ascending,
                               RandomState(call.seed)))

Do_ranking_metric ==
  /\ pc = "called"
  /\ call.op = "ranking_metric"
  /\ Return(ranking_metric(call.exprs, call.method, "pos", "neg", Phenotypes,
                           call.ascending))

Next ==
  \/ Do_enrichment_score
  \/ Do_enrichment_score_tensor
  \/ Do_rank_metric_tensor
  \/ Do_ranking_metric

Spec == Init /\ [][Next]_vars

-----------------------------------------------------------------------------
(* The claims about enrichment_score and enrichment_score_tensor.          *)

Done == pc = "done"

IsScore == call.op = "enrichment_score"
IsTensor == call.op = "enrichment_score_tensor"

\* the (1-based) positions of the gene list that the gene set hits
Hits(data, gene_set) == {i \in 1..Len(data.index) : data.index[i] \in gene_set}

Nhit(data, gene_set) == Cardinality(Hits(data, gene_set))
Nmiss(data, gene_set) == Len(data.index) - Nhit(data, gene_set)

\* the call returned the observed two-class ES, unscaled, of its gene sets
ObservedTwoClass ==
  /\ Done
  /\ \/ IsScore /\ call.nperm = 0
     \/ IsTensor /\ call.ndim = 1 /\ ~call.single /\ ~call.scale
  /\ ret.outcome = "ok"

RECURSIVE PrefixSum(_, _)
PrefixSum(x, i) == IF i = 0 THEN Zero ELSE Add(PrefixSum(x, i - 1), x[i])

\* the sum of |c_j|^p over the hits
HitWeight(data, gene_set, p) ==
  PrefixSum([j \in 1..Len(data.index) |->
               IF j \in Hits(data, gene_set) THEN Pow(AbsR(data.rank[j]), p) ELSE Zero],
            Len(data.index))

\* the running curve as the claim writes it
ClaimedRES(data, gene_set, p) ==
  LET N == Len(data.index)
      tag(j) == IF j \in Hits(data, gene_set) THEN One ELSE Zero
      S == HitWeight(data, gene_set, p)
      step == [j \in 1..N |->
                 Sub(Div(Mul(tag(j), Pow(AbsR(data.rank[j]), p)), S),
                     Div(Sub(One, tag(j)), R(Nmiss(data, gene_set))))]
  IN  [i \in 1..N |-> PrefixSum(step, i)]

\* max(RES) if |max(RES)| > |min(RES)|, min(RES) otherwise; an undefined curve
\* (0/0) has an undefined ES
ClaimedES(RES) ==
  IF \E i \in 1..Len(RES) : IsNaN(RES[i]) THEN NaN
  ELSE LET mx == CHOOSE v \in {RES[i] : i \in 1..Len(RES)} :
                   \A i \in 1..Len(RES) : Le(RES[i], v)
           mn == CHOOSE v \in {RES[i] : i \in 1..Len(RES)} :
                   \A i \in 1..Len(RES) : Le(v, RES[i])
       IN  IF Gt(AbsR(mx), AbsR(mn)) THEN mx ELSE mn

IsScenario ==
  /\ call.data = Scenario
  /\ call.gmt[1] = {1, 3}
  /\ call.weighted_score_type = 1

\* C1: in two-class mode without scaling, for a gene set with Nhit > 0 and
\* Nmiss > 0 and an exponent p > 0, the running curve that enrichment_score and
\* enrichment_score_tensor return for the observed replicate is the cumulative
\* sum of tag*|c|^p / (sum of |c|^p over the hits) - (1 - tag)/Nmiss, and the ES
\* is its maximum if that is greater in magnitude than its minimum and its
\* minimum otherwise; on the scenario [A..E], [5..1], {A, C}, p = 1 the hits are
\* positions 0 and 2, RES = [5/8, 7/24, 2/3, 1/3, 0] and ES = 2/3.
C1_TwoClassCurve ==
  ObservedTwoClass /\ call.weighted_score_type > 0 =>
    /\ \A m \in DOMAIN call.gmt :
         Nhit(call.data, call.gmt[m]) > 0 /\ Nmiss(call.data, call.gmt[m]) > 0 =>
           /\ ret.RES[m] = ClaimedRES(call.data, call.gmt[m], call.weighted_score_type)
           /\ ret.es[m] = ClaimedES(ret.RES[m])
    /\ IsScenario =>
         /\ ret.hit_ind[1] = <<0, 2>>
         /\ ret.RES[1] = <<Q(5, 8), Q(7, 24), Q(2, 3), Q(1, 3), Zero>>
         /\ ret.es[1] = Q(2, 3)

\* enrichment_score_tensor has scored the scenario, with null replicates
C1_Witness ==
  /\ ObservedTwoClass
  /\ IsTensor
  /\ IsScenario
  /\ call.nperm = MaxPerm
  /\ ret.es = <<Q(2, 3)>>
  /\ Len(ret.esnull[1]) = MaxPerm

\* the call scored gene sets with valid arguments and did not take the branch
\* that C3 is about
ValidScoring ==
  /\ Done
  /\ \/ IsScore /\ call.nperm = 0 /\ call.weighted_score_type >= 0
     \/ IsTensor /\ call.ndim = 1 /\ call.nperm > 0 /\ call.weighted_score_type > 0

\* C2: a gene set that shares no gene with the gene list gets ES = 0 and an
\* empty hit-index list, no exception is raised and no ES of the batch is NaN
\* or infinite.
C2_NoOverlapGivesZero ==
  ValidScoring /\ (\E m \in DOMAIN call.gmt : Nhit(call.data, call.gmt[m]) = 0) =>
    /\ ret.outcome = "ok"
    /\ \A m \in DOMAIN call.gmt :
         Nhit(call.data, call.gmt[m]) = 0 =>
           ret.es[m] = Zero /\ ret.hit_ind[m] = <<>>
    /\ \A m \in DOMAIN call.gmt :
         Nmiss(call.data, call.gmt[m]) > 0 => IsFinite(ret.es[m])

\* the classic curve: every hit adds 1/Nhit, every miss subtracts 1/Nmiss
ClassicRES(data, gene_set) ==
  LET N == Len(data.index)
      step == [j \in 1..N |->
                 IF j \in Hits(data, gene_set) THEN Q(1, Nhit(data, gene_set))
                 ELSE Q(-1, Nmiss(data, gene_set))]
  IN  [i \in 1..N |-> PrefixSum(step, i)]

\* C3: enrichment_score_tensor with weighted_score_type = 0 completes normally
\* and returns the classic unweighted running curve of every gene set.
C3_ExponentZeroIsClassic ==
  Done /\ IsTensor /\ call.ndim = 1 /\ call.nperm > 0 /\ call.weighted_score_type = 0 =>
    /\ ret.outcome = "ok"
    /\ \A m \in DOMAIN call.gmt :
         Nhit(call.data, call.gmt[m]) > 0 /\ Nmiss(call.data, call.gmt[m]) > 0 =>
           ret.RES[m] = ClassicRES(call.data, call.gmt[m])

InUnitInterval(a) == Ge(a, R(-1)) /\ Le(a, One)

\* every ES of the result, observed or null
AllES(r) ==
  {r.es[m] : m \in 1..Len(r.es)}
    \cup UNION {{r.esnull[m][k] : k \in 1..Len(r.esnull[m])} : m \in 1..Len(r.esnull)}

\* the call scored one gene set with Nhit > 0 and Nmiss > 0, unscaled, with an
\* exponent that is not negative
UnscaledProper ==
  /\ Done
  /\ \/ IsScore /\ call.weighted_score_type >= 0
     \/ IsTensor /\ call.ndim = 1 /\ ~call.scale /\ DOMAIN call.gmt = {1}
  /\ ret.outcome = "ok"
  /\ Nhit(call.data, call.gmt[1]) > 0
  /\ Nmiss(call.data, call.gmt[1]) > 0

InvalidArguments ==
  \/ call.op \in {"rank_metric_tensor", "ranking_metric"} /\ call.method \notin Methods
  \/ (IsScore \/ IsTensor) /\ call.weighted_score_type < 0
  \/ IsTensor /\ call.ndim \notin {1, 2}

\* C10: an unknown ranking method, a negative weighted_score_type or a gene
\* matrix of a dimensionality other than 1 or 2 ends the call in an error before
\* any computation: nothing is returned and no shuffle has been drawn from the
\* caller's random source.
C10_InvalidArgumentsEndBeforeWork ==
  Done /\ InvalidArguments =>
    /\ ret.outcome # "ok"
    /\ call.op # "ranking_metric" => ret.rs.shuffles = 0

-----------------------------------------------------------------------------
(* The significance engine on its own: gsea_pval and gsea_significance are *)
(* called with a vector of observed ES and a matrix of null ES.            *)

\* the observed ES tried: NaN is what the engine returns for a gene set that
\* hits nothing
EsVals == {Q(-1, 2), Q(1, 2), NaN}

NullVals == <<R(-1), Q(1, 2), One>>

\* a row of K null ES, in ascending order
NullRows(K) ==
  {[k \in 1..K |-> NullVals[ix[k]]] :
     ix \in {f \in [1..K -> 1..Len(NullVals)] : \A k \in 1..(K - 1) : f[k] <= f[k + 1]}}

\* the calls of gsea_pval: one gene set with K nulls
Calls_gsea_pval(K) ==
  {[op |-> "gsea_pval", es |-> es, esnull |-> esnull] :
     es \in [1..1 -> EsVals], esnull \in [1..1 -> NullRows(K)]}

\* the calls of gsea_significance: M gene sets with K nulls each
Calls_gsea_significance(M, K) ==
  {[op |-> "gsea_significance", es |-> es, esnull |-> esnull] :
     es \in [1..M -> EsVals], esnull \in [1..M -> NullRows(K)]}

InitSig ==
  /\ pc = "called"
  /\ \E K \in 0..MaxPerm :
       \/ call \in Calls_gsea_pval(K)
       \/ \E M \in 1..MaxSets : call \in Calls_gsea_significance(M, K)
  /\ ret = None
  /\ ref = None
  /\ \E e \in Entropy : defaultRs = RandomState(e)

Do_gsea_pval ==
  /\ pc = "called"
  /\ call.op = "gsea_pval"
  /\ Return([outcome |-> "ok", pval |-> gsea_pval(call.es, call.esnull)])

Do_gsea_significance ==
  /\ pc = "called"
  /\ call.op = "gsea_significance"
  /\ Return([outcome |-> "ok", sig |-> gsea_significance(call.es, call.esnull)])

NextSig ==
  \/ Do_gsea_pval
  \/ Do_gsea_significance

SpecSig == InitSig /\ [][NextSig]_vars

\* the number of items of the row that satisfy Test
HowMany(row, Test(_)) == Cardinality({k \in 1..Len(row) : Test(row[k])})

\* C7: gsea_pval returns |{null < ES}| / |{null < 0}| for ES < 0 and
\* |{null >= ES}| / |{null >= 0}| for ES >= 0, and exactly 1.0 when that
\* denominator is zero; the p-value is a number in [0, 1], never NaN or
\* infinite, whatever the observed ES and the null row (K = 0 included).
C7_PvalInUnitInterval ==
  Done /\ call.op = "gsea_pval" =>
    \A i \in 1..Len(call.es) :
      LET es == call.es[i]
          row == call.esnull[i]
          p == ret.pval[i]
          less == HowMany(row, LAMBDA a : Lt(a, es))
          negative == HowMany(row, LAMBDA a : Lt(a, Zero))
          atLeast == HowMany(row, LAMBDA a : Ge(a, es))
          nonNegative == HowMany(row, LAMBDA a : Ge(a, Zero))
      IN  /\ IsFinite(p) /\ Ge(p, Zero) /\ Le(p, One)
          /\ Lt(es, Zero) => p = (IF negative = 0 THEN One ELSE Q(less, negative))
          /\ Ge(es, Zero) => p = (IF nonNegative = 0 THEN One ELSE Q(atLeast, nonNegative))

\* the null row has no value of the sign that normalizes the observed ES
NoNullOfSign(es, row) ==
  \/ Ge(es, Zero) /\ HowMany(row, LAMBDA a : Ge(a, Zero)) = 0
  \/ Lt(es, Zero) /\ HowMany(row, LAMBDA a : Lt(a, Zero)) = 0

\* C8: when the null row of a gene set has no value of the sign needed to
\* normalize its observed ES, gsea_significance returns NES = 0.0 for it, and
\* no NES it returns for such a gene set is NaN or infinite.
C8_NesFallbackIsZero ==
  Done /\ call.op = "gsea_significance" =>
    \A i \in 1..Len(call.es) :
      NoNullOfSign(call.es[i], call.esnull[i]) => ret.sig[i].nes = Zero

\* the pooled normalized nulls of the call, as gsea_significance pools them
PooledNulls ==
  flatten([i \in 1..Len(call.es) |-> normalized_row(call.es[i], call.esnull[i]).nulls])

\* the observed NES of the call
PooledNes == [i \in 1..Len(ret.sig) |-> ret.sig[i].nes]

\* of the values of pool on the side of nes (>= 0, or < 0): how many there are,
\* and how many are at least as extreme as nes
SideCount(pool, nes) ==
  IF Ge(nes, Zero)
    THEN [all |-> HowMany(pool, LAMBDA a : Ge(a, Zero)),
          extreme |-> HowMany(pool, LAMBDA a : Ge(a, nes))]
    ELSE [all |-> HowMany(pool, LAMBDA a : Lt(a, Zero)),
          extreme |-> HowMany(pool, LAMBDA a : Lt(a, Zero) /\ Le(a, nes))]

\* C9: for every gene set gsea_significance returns q = min(pi_norm/pi_obs, 1),
\* pi_norm and pi_obs counted over the pooled normalized nulls and the pooled
\* observed NES on the side of NES*, so q is in [0, 1] whenever pi_obs > 0; the
\* sentinel is returned when pi_obs = 0 and never when pi_obs > 0.
C9_FdrSentinelOnlyWithoutObserved ==
  Done /\ call.op = "gsea_significance" =>
    \A i \in 1..Len(ret.sig) :
      LET nes == ret.sig[i].nes
          q == ret.sig[i].fdr
          norm == SideCount(PooledNulls, nes)
          obs == SideCount(PooledNes, nes)
      IN  ~IsNaN(nes) =>
            /\ obs.all > 0 /\ obs.extreme > 0 =>
                 /\ Ge(q, Zero) /\ Le(q, One)
                 /\ norm.all > 0 =>
                      q = Min2(Div(Q(norm.extreme, norm.all), Q(obs.extreme, obs.all)),
                               One)
            /\ obs.all > 0 /\ obs.extreme = 0 => q = R(FDR_SENTINEL)

-----------------------------------------------------------------------------
(* Runs of gsea_compute and gsea_compute_ss.  A run is made, remembered in *)
(* ref and made again with the same or another seed; between the two runs  *)
(* other code may draw shuffles from the default random source.            *)

MaxShuffles == 1

\* the ranked lists of MaxGenes genes from the highest to the lowest correlation
RunLists ==
  {l \in RankedLists :
     /\ Len(l.index) = MaxGenes
     /\ l.rank[1] = R(1)
     /\ l.rank[MaxGenes] = R(-2)}

RowsInTurn == <<<<R(1), R(2), R(3)>>, <<R(3), R(1), R(0)>>, <<R(2), R(2), R(2)>>>>

\* the expression tables of MaxGenes genes: the rows taken in turn, from the k-th
RunTables ==
  {[index |-> [i \in 1..MaxGenes |-> i],
    values |-> [i \in 1..MaxGenes |-> RowsInTurn[((i + k) % 3) + 1]]] : k \in 0..2}

\* the gmt dictionaries of the runs: of one gene set and of MaxSets gene sets
RunGmts == UNION {[1..M -> PoolSets] : M \in {1, MaxSets}}

\* n permutations with a seed
PermSeeds == UNION {{[n |-> n, seed |-> seed] : seed \in SeedsFor(n)} : n \in Perms}

Calls_gsea_compute ==
  {[op |-> "gsea_compute", data |-> t, gmt |-> gmt, n |-> p.n,
    permutation_type |-> pt, prerank |-> FALSE, seed |-> p.seed] :
     t \in RunTables, gmt \in RunGmts, p \in PermSeeds,
     pt \in {"phenotype", "gene_set"}}
    \cup {[op |-> "gsea_compute", data |-> l, gmt |-> gmt, n |-> p.n,
           permutation_type |-> "gene_set", prerank |-> TRUE, seed |-> p.seed] :
            l \in RunLists, gmt \in RunGmts, p \in PermSeeds}

Calls_gsea_compute_ss ==
  {[op |-> "gsea_compute_ss", data |-> [index |-> l.index, values |-> l.rank],
    gmt |-> gmt, n |-> p.n, scale |-> sc, seed |-> p.seed] :
     l \in RunLists, gmt \in RunGmts, p \in PermSeeds, sc \in BOOLEAN}

InitRun ==
  /\ pc = "called"
  /\ call \in Calls_gsea_compute \cup Calls_gsea_compute_ss
  /\ ret = None
  /\ ref = None
  /\ \E e \in Entropy : defaultRs = RandomState(e)

Do_gsea_compute ==
  /\ pc = "called"
  /\ call.op = "gsea_compute"
  /\ Return(gsea_compute(call.data, call.gmt, call.n, 1, call.permutation_type,
                         "diff_of_classes", "pos", "neg", Phenotypes, FALSE, call.seed,
                         call.prerank))

Do_gsea_compute_ss ==
  /\ pc = "called"
  /\ call.op = "gsea_compute_ss"
  /\ Return(gsea_compute_ss(call.data, call.gmt, call.n, 1, call.scale, call.seed))

\* the run is remembered and made once more, with a seed of the caller's choice
Run_again ==
  /\ pc = "done"
  /\ ref = None
  /\ ref' = [call |-> call, ret |-> ret]
  /\ \E seed \in Seeds : call' = [call EXCEPT !.seed = seed]
  /\ pc' = "called"
  /\ ret' = None
  /\ UNCHANGED defaultRs

\* between the runs some code calls shuffle_list(gene_list) and leaves rs to its
\* default, the RandomState the def statement created
Do_shuffle_list ==
  /\ pc = "called"
  /\ ref # None
  /\ defaultRs.shuffles < MaxShuffles
  /\ defaultRs' = shuffle_list(call.data.index, defaultRs).rs
  /\ UNCHANGED <<pc, call, ret, ref>>

NextRun ==
  \/ Do_gsea_compute
  \/ Do_gsea_compute_ss
  \/ Run_again
  \/ Do_shuffle_list

SpecRun == InitRun /\ [][NextRun]_vars

\* the genes in the order of the observed (last, unpermuted) replicate
ObservedGenes ==
  IF call.permutation_type = "phenotype"
    THEN rank_metric_tensor(call.data, "diff_of_classes", call.n, "pos", "neg",
                            Phenotypes, FALSE, RandomState(call.seed)).genes_mat[call.n + 1]
    ELSE call.data.index

\* the 0-based positions of genes that are in gene_set
HitIndex(genes, gene_set) ==
  LET at == SelectSeq([i \in 1..Len(genes) |-> i], LAMBDA i : genes[i] \in gene_set)
  IN  [j \in 1..Len(at) |-> at[j] - 1]

\* C5: in tag-permutation and in phenotype-permutation mode alike,
\* enrichment_score_tensor hands gsea_compute an observed ES vector with one
\* entry per gene set in sorted name order, a null matrix of (gene sets) x K,
\* and one hit-index list and one RES curve per gene set, taken from the
\* unpermuted replicate; the i-th record of the result belongs to the i-th name.
C5_OneEntryPerGeneSet ==
  Done /\ call.op = "gsea_compute" /\ ret.outcome = "ok" =>
    LET M == Len(ret.subsets)
    IN  /\ ret.subsets = sorted(DOMAIN call.gmt)
        /\ Len(ret.sig) = M
        /\ Len(ret.es) = M
        /\ Len(ret.esnull) = M
        /\ \A m \in 1..Len(ret.esnull) : Len(ret.esnull[m]) = call.n
        /\ Len(ret.RES) = M
        /\ Len(ret.hit_ind) = M
        /\ \A m \in 1..Len(ret.hit_ind) :
             m <= M => ret.hit_ind[m] = HitIndex(ObservedGenes, call.gmt[ret.subsets[m]])

\* C6: a run of gsea_compute or gsea_compute_ss made again with the same inputs
\* and the same seed returns the same null ES matrix, the same (ES, NES, p, FDR)
\* records, hit indices and RES curves, whatever was shuffled in between.
C6_SameSeedSameRun ==
  Done /\ ref # None /\ call = ref.call => ret = ref.ret

\* a run with permutations was repeated after shuffles of the default source
C6_Witness ==
  /\ Done
  /\ ref # None
  /\ call = ref.call
  /\ ret.outcome = "ok"
  /\ ret.rs.shuffles > 0
  /\ defaultRs.shuffles > 0
  /\ ret = ref.ret
  /\ \E m \in 1..Len(ret.esnull) : \E k \in 1..Len(ret.esnull[m]) :
       ~IsNaN(ret.esnull[m][k])

-----------------------------------------------------------------------------
(* Single-sample scoring through gsea_compute_ss.                          *)

\* the ranked series of a gsea_compute_ss call as a gene list with correlations
SeriesOf(data) == [index |-> data.index, rank |-> data.values]

\* the sum of the running curve over all positions, divided by the length of
\* the gene list when scale is set
ClaimedSingleES(data, gene_set, p, scale) ==
  LET RES == ClaimedRES(data, gene_set, p)
      total == PrefixSum(RES, Len(RES))
  IN  IF scale THEN Div(total, R(Len(data.index))) ELSE total

\* C11: in single-sample mode the ES of a gene set is the sum of the running
\* curve over all N positions; when the caller of gsea_compute_ss sets scale the
\* sum is divided by N, and when scale is not set it is not divided.
C11_SingleSampleSumScaled ==
  Done /\ call.op = "gsea_compute_ss" /\ ret.outcome = "ok" =>
    \A m \in 1..Len(ret.subsets) :
      LET gene_set == call.gmt[ret.subsets[m]]
      IN  Nhit(SeriesOf(call.data), gene_set) > 0
            /\ Nmiss(SeriesOf(call.data), gene_set) > 0
            => ret.es[m] = ClaimedSingleES(SeriesOf(call.data), gene_set, 1, call.scale)

-----------------------------------------------------------------------------
(* The ranking metrics: ranking_metric and rank_metric_tensor.             *)

IsRanking == call.op = "ranking_metric"
IsRankTensor == call.op = "rank_metric_tensor"

\* the samples that carry a class label
SamplesOf(label) == {s \in 1..Len(Phenotypes) : Phenotypes[s] = label}

\* the sum of the values of a gene over a set of samples
SumOver(row, S) ==
  PrefixSum([s \in 1..Len(row) |-> IF s \in S THEN row[s] ELSE Zero], Len(row))

MeanOver(row, S) == Div(SumOver(row, S), R(Cardinality(S)))

\* the squared standard deviation over a set of samples
VarOver(row, S, ddof) ==
  LET mean == MeanOver(row, S)
  IN  Div(SumOver([s \in 1..Len(row) |-> Mul(Sub(row[s], mean), Sub(row[s], mean))], S),
          R(Cardinality(S) - ddof))

\* the t statistic of one gene with the per-class sample counts as divisors,
\* held as its signed square
ClaimedT(row, ddof) ==
  LET pos == SamplesOf("pos")
      neg == SamplesOf("neg")
  IN  Div(SignedSquare(Sub(MeanOver(row, pos), MeanOver(row, neg))),
          Add(Div(VarOver(row, pos, ddof), R(Cardinality(pos))),
              Div(VarOver(row, neg, ddof), R(Cardinality(neg)))))

\* C12: for method t_test, ranking_metric and rank_metric_tensor (unpermuted)
\* return for every gene (mean_pos - mean_neg) / sqrt(std_pos^2 / n_pos +
\* std_neg^2 / n_neg) with n_pos and n_neg the numbers of samples of the two
\* classes, whatever the number of genes in the expression matrix.
C12_TTestDivisorsAreSampleCounts ==
  /\ Done /\ IsRanking /\ call.method = "t_test" /\ ret.outcome = "ok" =>
       \A j \in 1..Len(ret.rank) :
         ret.rank[j] = ClaimedT(call.exprs.values[ret.gene_name[j]], 1)
  /\ Done /\ IsRankTensor /\ call.method = "t_test" /\ ret.outcome = "ok"
       /\ call.permutation_num = 0 =>
       \A j \in 1..Len(ret.cor_mat[1]) :
         ret.cor_mat[1][j] = ClaimedT(call.exprs.values[ret.genes_mat[1][j]], 0)

\* genes (numbered in the order of the expression matrix) and their values are
\* in the requested direction, and genes of equal value are in matrix order
OrderedStable(genes, values, ascending) ==
  \A i \in 1..Len(values) : \A j \in (i + 1)..Len(values) :
    ~IsNaN(values[i]) /\ ~IsNaN(values[j]) =>
      /\ IF ascending THEN Le(values[i], values[j]) ELSE Ge(values[i], values[j])
      /\ Eq(values[i], values[j]) => genes[i] < genes[j]

\* C13: the ranking returned by ranking_metric, and the row that
\* rank_metric_tensor returns for the unpermuted labeling, is ordered by metric
\* value descending unless ascending is requested, and in both directions genes
\* with equal metric values keep their relative order of the expression matrix.
C13_SortedWithStableTies ==
  /\ Done /\ IsRanking /\ ret.outcome = "ok" =>
       OrderedStable(ret.gene_name, ret.rank, call.ascending)
  /\ Done /\ IsRankTensor /\ ret.outcome = "ok" /\ call.permutation_num = 0 =>
       OrderedStable(ret.genes_mat[1], ret.cor_mat[1], call.ascending)

-----------------------------------------------------------------------------
(* The normalization of gsea_significance.                                 *)

IsSignificance == call.op = "gsea_significance"

\* the mean of the null values of a row that satisfy Test
MeanWhere(row, Test(_)) ==
  LET kept == [k \in 1..Len(row) |-> IF Test(row[k]) THEN row[k] ELSE Zero]
  IN  Div(PrefixSum(kept, Len(row)), R(HowMany(row, Test)))

\* the gene set has an observed ES and null values of both signs
BothMeansDefined(i) ==
  /\ ~IsNaN(call.es[i])
  /\ \E k \in 1..Len(call.esnull[i]) : Ge(call.esnull[i][k], Zero)
  /\ \E k \in 1..Len(call.esnull[i]) : Lt(call.esnull[i][k], Zero)

\* a value divided by meanPos when it is >= 0, and its negation divided by
\* meanNeg when it is < 0
NormalizedBy(v, meanPos, meanNeg) ==
  IF Ge(v, Zero) THEN Div(v, meanPos) ELSE Div(Neg(v), meanNeg)

\* the observed NES and the normalized nulls of gene set i are NormalizedBy the
\* two means
NormalizedWith(i, meanPos, meanNeg) ==
  /\ ret.sig[i].nes = NormalizedBy(call.es[i], meanPos, meanNeg)
  /\ LET nulls == normalized_row(call.es[i], call.esnull[i]).nulls
     IN  /\ Len(nulls) = Len(call.esnull[i])
         /\ \A k \in 1..Len(nulls) :
              nulls[k] = NormalizedBy(call.esnull[i][k], meanPos, meanNeg)

\* C14 as stated: with meanPos the mean of the nulls >= 0 and meanNeg the
\* absolute value of the mean of the nulls < 0, the observed NES is ES/meanPos
\* when ES >= 0 and -ES/meanNeg when ES < 0, and every null of the gene set is
\* normalized in the same way by its own sign.
C14_NesDividesByAbsoluteMeanNeg ==
  Done /\ IsSignificance =>
    \A i \in 1..Len(call.es) :
      BothMeansDefined(i) =>
        NormalizedWith(i, MeanWhere(call.esnull[i], IsNonNeg),
                       AbsR(MeanWhere(call.esnull[i], IsNeg)))

\* C14 as amended: meanNeg is the mean of the nulls < 0 itself, a negative
\* number; the observed NES is ES/meanPos when ES >= 0 and -ES/meanNeg when
\* ES < 0, which is negative like the ES, and every null of the gene set is
\* normalized in the same way by its own sign.
C14_NesDividesBySignedMeanNeg ==
  Done /\ IsSignificance =>
    \A i \in 1..Len(call.es) :
      BothMeansDefined(i) =>
        /\ NormalizedWith(i, MeanWhere(call.esnull[i], IsNonNeg),
                          MeanWhere(call.esnull[i], IsNeg))
        /\ Lt(call.es[i], Zero) => Lt(ret.sig[i].nes, Zero)

\* a gene set with a negative ES and nulls of both signs has been normalized
C14_Witness ==
  /\ Done
  /\ IsSignificance
  /\ \E i \in 1..Len(call.es) :
       /\ BothMeansDefined(i)
       /\ Lt(call.es[i], Zero)
       /\ Lt(ret.sig[i].nes, Zero)
       /\ IsFinite(ret.sig[i].nes)

-----------------------------------------------------------------------------
(* The rows of rank_metric_tensor.                                         *)

\* the expression matrix of the call with one row per sample
SampleRows(exprs) ==
  [s \in 1..Len(Phenotypes) |-> [g \in 1..Len(exprs.index) |-> exprs.values[g][s]]]

\* the K + 1 labelings of the call: K shuffles of the sample rows drawn from the
\* seeded source, then the original
Replicates ==
  ShuffleEach([k \in 1..call.permutation_num |-> SampleRows(call.exprs)],
              RandomState(call.seed)).xs \o <<SampleRows(call.exprs)>>

\* the metric of every gene under every labeling
OwnMetric ==
  cor_mat_of(Replicates, call.method, "pos", "neg", Phenotypes, Len(call.exprs.index))

\* the values of a row are in the requested direction
InDirection(values, ascending) ==
  \A i \in 1..Len(values) : \A j \in (i + 1)..Len(values) :
    ~IsNaN(values[i]) /\ ~IsNaN(values[j]) =>
      IF ascending THEN Le(values[i], values[j]) ELSE Ge(values[i], values[j])

\* C15: for every K, seed and replicate k, row k of the correlation matrix
\* returned by rank_metric_tensor holds the metric values of replicate k's own
\* labeling in the requested direction, row k of the gene matrix lists the
\* genes in that order (gene and value paired index for index), and the last
\* row is that of the original labeling, the same as without permutations.
C15_RowsHoldOwnMetric ==
  Done /\ IsRankTensor /\ ret.outcome = "ok" =>
    LET K == call.permutation_num
        G == Len(call.exprs.index)
        alone == rank_metric_tensor(call.exprs, call.method, 0, "pos", "neg",
                                    Phenotypes, call.ascending, RandomState(call.seed))
    IN  /\ Len(ret.cor_mat) = K + 1
        /\ Len(ret.genes_mat) = K + 1
        /\ \A k \in 1..(K + 1) :
             /\ {ret.genes_mat[k][j] : j \in 1..G} = {call.exprs.index[g] : g \in 1..G}
             /\ \A j \in 1..G : ret.cor_mat[k][j] = OwnMetric[k][ret.genes_mat[k][j]]
             /\ InDirection(ret.cor_mat[k], call.ascending)
        /\ ret.cor_mat[K + 1] = alone.cor_mat[1]
        /\ ret.genes_mat[K + 1] = alone.genes_mat[1]

-----------------------------------------------------------------------------
(* The null replicates of tag-permutation mode.                            *)

\* enrichment_score_tensor scored a gene list (1-D) and returned
TagPermutation == Done /\ IsTensor /\ call.ndim = 1 /\ ret.outcome = "ok"

\* the true hit indicator of every gene set of the call
TrueTags ==
  [m \in 1..Cardinality(DOMAIN call.gmt) |->
     [n \in 1..Len(call.data.index) |-> call.data.index[n] \in call.gmt[m]]]

\* the hit indicators of all replicates as the call's random source makes them
ShuffledTags ==
  perm_tag_tensor_1d(TrueTags, Len(call.data.index), call.nperm, RandomState(call.seed))

\* the buffer of indicators after each of the shuffles 0..J of the call
BuffersUpTo(J) ==
  [j \in 0..J |->
     shuffle_columns(np_repeat(TrueTags, Len(call.data.index), call.nperm + 1), j,
                     Len(call.data.index), call.nperm + 1, call.nperm,
                     RandomState(call.seed)).buf]

\* position f of the buffer belongs to gene set m and replicate k
InColumn(f, m, k, N, C) ==
  /\ ((f - 1) % C) + 1 = k
  /\ ((f - 1) \div (N * C)) + 1 = m

TrueCount(tags) == Cardinality({n \in 1..Len(tags) : tags[n]})

\* the genes at the positions an indicator marks
MarkedGenes(tags) == {call.data.index[n] : n \in {i \in 1..Len(tags) : tags[i]}}

\* C16: in tag-permutation mode of enrichment_score_tensor, for every gene set
\* each of the K null replicates' hit indicators is a rearrangement of the true
\* indicator (same length N, same Nhit), replicate K+1 is the true indicator, a
\* shuffle of one (gene set, replicate) column changes no other column, and
\* every replicate is scored on the same gene order and correlation vector.
C16_NullTagsAreRearrangements ==
  TagPermutation =>
    LET N == Len(call.data.index)
        M == Cardinality(DOMAIN call.gmt)
        K == call.nperm
        T == ShuffledTags
    IN  /\ ret.rs = T.rs
        /\ \A m \in 1..M :
             /\ T.tensor[m][K + 1] = TrueTags[m]
             /\ ret.hit_ind[m] = HitIndex(call.data.index, MarkedGenes(T.tensor[m][K + 1]))
             /\ \A k \in 1..K :
                  /\ Len(T.tensor[m][k]) = N
                  /\ TrueCount(T.tensor[m][k]) = Nhit(call.data, call.gmt[m])
                  /\ ~call.single /\ ~call.scale
                       /\ TrueCount(TrueTags[m]) > 0 /\ TrueCount(TrueTags[m]) < N =>
                       ret.esnull[m][k] =
                         ClaimedES(ClaimedRES(call.data, MarkedGenes(T.tensor[m][k]),
                                              call.weighted_score_type))
        /\ Let(BuffersUpTo(M * K), LAMBDA bufs :
             \A j \in 1..(M * K) : \A f \in 1..(M * N * (K + 1)) :
               ~InColumn(f, ((j - 1) \div K) + 1, ((j - 1) % K) + 1, N, K + 1) =>
                 bufs[j][f] = bufs[j - 1][f])

\* a batch of gene sets was scored with null replicates, and a shuffle moved
\* the hits of a gene set
C16_Witness ==
  /\ TagPermutation
  /\ Cardinality(DOMAIN call.gmt) > 1
  /\ call.nperm = MaxPerm
  /\ \E m \in DOMAIN call.gmt : \E k \in 1..call.nperm :
       /\ ShuffledTags.tensor[m][k] # TrueTags[m]
       /\ ~IsNaN(ret.esnull[m][k])

-----------------------------------------------------------------------------
(* The random source of calls that pass no rs.                             *)

\* C17: no random-source state is carried from one call to the next except
\* through a source the caller passes: whenever a call without an rs argument
\* may be made, the source it would draw from has been advanced by no earlier
\* call, so its shuffles do not depend on the calls before it.
C17_NoCarriedRandomState ==
  \E e \in Entropy : defaultRs = RandomState(e)

====
